---- MODULE Spec2Model ----
(***************************************************************************)
(* Model of the ingestion pipeline and the search of dfrn-prototype:       *)
(*   lib/import-chunks.ts  (parseTSV, importChunksFromTSV)                 *)
(*   lib/vector-search.ts  (searchSimilarChunks)                           *)
(*   db/schema.ts          (documents, text_chunks)                        *)
(*   scripts/import.ts     (import CLI, --update flag)                     *)
(*                                                                         *)
(* Strings are sequences of atoms (an atom is a character or a word), so   *)
(* that concatenation, prefix tests and trimming are computed.  A line of  *)
(* the TSV file is the sequence of its tab-separated fields.  A nullable   *)
(* column holds Null or Val(s).                                            *)
(***************************************************************************)
EXTENDS Integers, Sequences, FiniteSets, TLC

VARIABLES
  docs,         \* rows of table documents: [id, title, sourceUrl]
  chunks,       \* rows of table text_chunks: [id, documentId, sectionTitle,
                \*   content, embedding]
  nextId,       \* the next generated uuid (gen_random_uuid: always fresh)
  run,          \* per import process: the call of importChunksFromTSV it is in
  runsStarted,  \* calls of importChunksFromTSV started so far
  search,       \* the last call of searchSimilarChunks and what it returned
  chat,         \* the last request to POST /api/chat and its response
  embed,        \* the last call of generateEmbeddings and what it returned
  tool,         \* the last run of a command-line tool on a file
  fs,           \* the files the tools read and write: path -> content
  kiosk         \* the KioskChat component: its state, timers and clock

vars == <<docs, chunks, nextId, run, runsStarted, search, chat, embed, tool, fs, kiosk>>

\* the variables of the store and of the import
storeVars == <<docs, chunks, nextId, run, runsStarted, search>>

\* the variables the import and the search never touch
appVars == <<chat, embed, tool, fs, kiosk>>

\* ------------------------------------------------------------------ bounds
\* data lines of a file in Spec and SpecUpdate
MaxRows == 2

\* data lines of a file in SpecRerun
MaxLongRows == 3

\* data lines of a file in SpecConc
MaxConcRows == 1

\* calls of importChunksFromTSV in one behaviour
MaxRuns == 2

\* lines of a file in SpecParse
MaxParseRows == 2

\* lines of the longest file in SpecSearch
MaxSearchRows == 6

\* lines of the longest file in SpecChat
MaxChatRows == 3

\* texts of the longest list given to generateEmbeddings in SpecEmbed
MaxTexts == 3

\* content lines of the longest file given to the embedding tools
MaxToolRows == 3

\* lines after the header of the longest file given to clean-encoding
MaxCleanLines == 3

\* the kiosk's clock stops at MaxTime minutes
MaxTime == 4

\* messages of the longest kiosk conversation
MaxMessages == 3

\* timeouts the kiosk schedules in one behaviour
MaxTimers == 5

\* presses of Start Over in one behaviour
MaxStartOvers == 2

\* ------------------------------------------------------- program constants
EmbeddingDim == 1536

\* INACTIVITY_TIMEOUT_MS = 2 * 60 * 1000, in minutes
InactivityTimeout == 2

\* limit = 5
DefaultLimit == 5

\* --------------------------------------------------------------- SQL values
Null == [isNull |-> TRUE, v |-> <<>>]

Val(s) == [isNull |-> FALSE, v |-> s]

\* eq(column, s): never true of a NULL column
SqlEq(col, s) == ~col.isNull /\ col.v = s

\* x || null
OrNull(s) == IF s # <<>> THEN Val(s) ELSE Null

\* ------------------------------------------------------------ string helpers
RECURSIVE TrimStart(_)
TrimStart(s) ==
  IF s # <<>> /\ Head(s) = " " THEN TrimStart(Tail(s)) ELSE s

RECURSIVE TrimEnd(_)
TrimEnd(s) ==
  IF s # <<>> /\ s[Len(s)] = " " THEN TrimEnd(SubSeq(s, 1, Len(s) - 1)) ELSE s

Trim(s) == TrimEnd(TrimStart(s))

\* line.trim() is empty: tabs are white space, so every field must be blank
\* (the fifth field is JSON text, see below)
IsBlankLine(line) ==
  \A i \in 1..Len(line) :
    IF i = 5 THEN line[i].json = "empty" ELSE Trim(line[i]) = <<>>

\* line.startsWith(atom), for an atom that holds no tab
LineStartsWith(line, atom) ==
  /\ Len(line) >= 1
  /\ Len(line[1]) >= 1
  /\ line[1][1] = atom

\* --------------------------------------------------------------- embeddings
\* The embedding field is JSON text; JsonArray(n, vs) is the text of an array
\* of n numbers whose leading components are vs (the others are 0).
JsonArray(n, vs) == [json |-> "array", len |-> n, vals |-> vs, elems |-> "number"]

\* the text of an array of n JSON strings that are no numerals: ["x", ...]
JsonStringArray(n) == [json |-> "array", len |-> n, vals |-> <<>>, elems |-> "string"]

\* the text of an array of n JSON strings that are numerals: ["1", "0", ...]
JsonNumeralArray(n, vs) == [json |-> "array", len |-> n, vals |-> vs, elems |-> "numeral"]

NotJson == [json |-> "invalid", len |-> 0, vals |-> <<>>, elems |-> "none"]

\* the text of an array cut off before its end: "[0.1, 0.2"
TruncatedArray == [json |-> "invalid", len |-> 0, vals |-> <<>>, elems |-> "truncated"]

\* embedding.trim().startsWith("[")
StartsWithBracket(e) == e.json = "array" \/ e.elems = "truncated"

\* the empty string in the embedding column of a line
EmptyText == [json |-> "empty", len |-> 0, vals |-> <<>>, elems |-> "none"]

\* `[${embedding.join(",")}]`: the vector literal made of the array; join
\* writes a numeral string as it writes the number
ToVector(e) ==
  [dims |-> e.len, comps |-> e.vals,
   elems |-> IF e.elems = "numeral" THEN "number" ELSE e.elems]

\* embedding: vector("embedding", { dimensions: 1536 }).notNull() -- the
\* cast ::vector wants numbers, the column wants 1536 of them
VectorAccepted(v) == v.elems = "number" /\ v.dims = EmbeddingDim

\* ------------------------------------------------------ cosine similarity
\* Vectors are written by their leading components, all others being 0; the
\* components are integers, so that <=> can be computed exactly.  A value
\* [dot, nn] stands for the real number dot / sqrt(nn), nn > 0.
RECURSIVE Dot(_, _)
Dot(a, b) ==
  IF a = <<>> \/ b = <<>> THEN 0
  ELSE Head(a) * Head(b) + Dot(Tail(a), Tail(b))

\* the threshold n/d as such a value
Ratio(n, d) == [dot |-> n, nn |-> d * d]

\* similarityThreshold = 0.7
DefaultThreshold == Ratio(7, 10)

\* x >= y for two such values
RealGe(x, y) ==
  IF x.dot >= 0 /\ y.dot < 0 THEN TRUE
  ELSE IF x.dot < 0 /\ y.dot >= 0 THEN FALSE
  ELSE IF x.dot >= 0 THEN x.dot * x.dot * y.nn >= y.dot * y.dot * x.nn
  ELSE x.dot * x.dot * y.nn <= y.dot * y.dot * x.nn

\* embedding <=> query: the cosine distance 1 - cos, kept as its cos
CosineDistance(v, q) ==
  [cos |-> [dot |-> Dot(v.comps, q.comps),
            nn  |-> Dot(v.comps, v.comps) * Dot(q.comps, q.comps)]]

\* 1 - (embedding <=> query)
OneMinus(dist) == dist.cos

\* variant: ORDER BY ... DESC
DistanceLeDescending(d1, d2) == RealGe(d2.cos, d1.cos)

\* d1 <= d2, the order of ORDER BY embedding <=> query ASC
DistanceLe(d1, d2) == RealGe(d1.cos, d2.cos)

\* ------------------------------------------------------------------ parseTSV
\* destructuring of line.split("\t"): a missing field is undefined
HasField(line, i) == i <= Len(line)

\* !field : undefined or the empty string
Falsy(line, i) == ~HasField(line, i) \/ line[i] = <<>>

\* !embeddingStr
FalsyEmbedding(line) == ~HasField(line, 5) \/ line[5] = EmptyText

\* field?.trim() || ""
TrimOrEmpty(line, i) == IF HasField(line, i) THEN Trim(line[i]) ELSE <<>>

RowIsValid(line) ==
  /\ ~Falsy(line, 1)
  /\ ~Falsy(line, 4)
  /\ ~FalsyEmbedding(line)
  /\ line[5].json = "array"
  /\ line[5].len = EmbeddingDim

ParseRow(line) ==
  [documentTitle |-> Trim(line[1]),
   sourceUrl     |-> TrimOrEmpty(line, 2),
   sectionTitle  |-> TrimOrEmpty(line, 3),
   chunkContent  |-> Trim(line[4]),
   embedding     |-> line[5]]

IsDataLine(line) ==
  /\ ~IsBlankLine(line)
  /\ ~LineStartsWith(line, "#")
  /\ ~LineStartsWith(line, "document_title")

DataLinesOf(file) == SelectSeq(file, IsDataLine)

\* the rows of the file, or a failure when any data line is invalid
parseTSV(file) ==
  LET dataLines == DataLinesOf(file)
  IN  IF \A i \in 1..Len(dataLines) : RowIsValid(dataLines[i])
      THEN [ok |-> TRUE,
            rows |-> [i \in 1..Len(dataLines) |-> ParseRow(dataLines[i])]]
      ELSE [ok |-> FALSE, rows |-> <<>>]

\* ------------------------------------------------------------ documentGroups
\* `${row.documentTitle}|${row.sourceUrl}`
GroupKey(row) == row.documentTitle \o <<"|">> \o row.sourceUrl

\* variant: a row joins the last group only (grouping by contiguous block)
AddToGroupsContiguous(groups, row) ==
  LET key == GroupKey(row)
      n   == Len(groups)
  IN  IF n > 0 /\ groups[n].key = key
      THEN [groups EXCEPT ![n].chunks = Append(@, row)]
      ELSE Append(groups, [key |-> key, chunks |-> <<row>>])

\* Map.set / Map.get(key).push(row): a Map iterates in insertion order
AddToGroups(groups, row) ==
  LET key == GroupKey(row)
  IN  IF \E i \in 1..Len(groups) : groups[i].key = key
      THEN [i \in 1..Len(groups) |->
              IF groups[i].key = key
              THEN [groups[i] EXCEPT !.chunks = Append(@, row)]
              ELSE groups[i]]
      ELSE Append(groups, [key |-> key, chunks |-> <<row>>])

RECURSIVE GroupRows(_, _)
GroupRows(groups, rows) ==
  IF rows = <<>> THEN groups
  ELSE GroupRows(AddToGroups(groups, Head(rows)), Tail(rows))

documentGroups(rows) == GroupRows(<<>>, rows)

\* ---------------------------------------------------------------- the store
\* variant: the source is always compared with eq(), also when it is empty
SelectDocumentsEqOnly(ds, title, sourceUrl) ==
  {d \in ds : d.title = title /\ SqlEq(d.sourceUrl, sourceUrl)}

\* select from documents where title = t and (source_url = u | IS NULL)
SelectDocuments(ds, title, sourceUrl) ==
  {d \in ds :
     /\ d.title = title
     /\ IF sourceUrl # <<>> THEN SqlEq(d.sourceUrl, sourceUrl)
                            ELSE d.sourceUrl.isNull}

\* variant: the source is stored as parsed, without "|| null"
NewDocumentKeepEmpty(id, title, sourceUrl) ==
  [id |-> id, title |-> title, sourceUrl |-> Val(sourceUrl)]

\* insert into documents values (title, sourceUrl || null) returning *
NewDocument(id, title, sourceUrl) ==
  [id |-> id, title |-> title, sourceUrl |-> OrNull(sourceUrl)]

\* variant: the content is compared with the section_title column
SelectChunksBySection(cs, documentId, content) ==
  {c \in cs : c.documentId = documentId /\ SqlEq(c.sectionTitle, content)}

\* variant: the chunk is looked up by content in the whole table
SelectChunksAnyDocument(cs, documentId, content) ==
  {c \in cs : c.content = content}

\* select from text_chunks where document_id = d and content = c
SelectChunks(cs, documentId, content) ==
  {c \in cs : c.documentId = documentId /\ c.content = content}

\* insert into text_chunks values (documentId, sectionTitle || null, ...)
NewChunk(id, documentId, row) ==
  [id           |-> id,
   documentId   |-> documentId,
   sectionTitle |-> OrNull(row.sectionTitle),
   content      |-> row.chunkContent,
   embedding    |-> ToVector(row.embedding)]

\* variant: the foreign key without ON DELETE cascade
DeleteChunksOfNobody(cs, documentId) == cs

\* references(() => documents.id, { onDelete: "cascade" }): the chunks left
\* when the Document documentId is deleted
DeleteChunksOf(cs, documentId) == {c \in cs : c.documentId # documentId}

\* ------------------------------------------------------ searchSimilarChunks
\* a parameter with a default value: omitted (undefined), or given as v
OmittedLimit == [given |-> FALSE, v |-> 0]

OmittedThreshold == [given |-> FALSE, v |-> Ratio(0, 1)]

Given(x) == [given |-> TRUE, v |-> x]

WithDefault(arg, default) == IF arg.given THEN arg.v ELSE default

\* variant: no check of the query's length
QueryAcceptedAlways(q) == TRUE

\* if (queryEmbedding.length !== 1536) throw
QueryAccepted(q) == q.len = EmbeddingDim

\* from text_chunks inner join documents on document_id = documents.id
JoinedRows(ds, cs) ==
  {r \in {[chunk |-> c, document |-> d] : c \in cs, d \in ds} :
     r.chunk.documentId = r.document.id}

\* variant: the where clause left out
PassesThresholdAlways(row, q, threshold) == TRUE

\* where 1 - (embedding <=> query) >= similarityThreshold
PassesThreshold(row, q, threshold) ==
  RealGe(OneMinus(CosineDistance(row.chunk.embedding, q)), threshold)

\* order by embedding <=> query ASC: every order the store may return,
\* rows at the same distance coming in any order
RECURSIVE OrderByDistance(_, _)
OrderByDistance(rows, q) ==
  IF rows = {} THEN {<<>>}
  ELSE UNION
    {{<<r>> \o rest : rest \in OrderByDistance(rows \ {r}, q)} :
       r \in {x \in rows :
                \A y \in rows :
                  DistanceLe(CosineDistance(x.chunk.embedding, q),
                             CosineDistance(y.chunk.embedding, q))}}

\* variant: the query without .limit(limit)
LimitIgnored(rows, limit) == rows

\* .limit(limit)
Limit(rows, limit) ==
  IF Len(rows) <= limit THEN rows ELSE SubSeq(rows, 1, limit)

\* the selected columns of one row, as results.map returns them
SearchResult(row, q) ==
  [id            |-> row.chunk.id,
   content       |-> row.chunk.content,
   sectionTitle  |-> row.chunk.sectionTitle,
   similarity    |-> OneMinus(CosineDistance(row.chunk.embedding, q)),
   documentId    |-> row.chunk.documentId,
   documentTitle |-> row.document.title,
   sourceUrl     |-> row.document.sourceUrl]

\* the answers the store may give to the query of searchSimilarChunks
QueryResults(ds, cs, q, limit, threshold) ==
  LET passing == {r \in JoinedRows(ds, cs) : PassesThreshold(r, q, threshold)}
  IN  {[i \in 1..Len(Limit(ordered, limit)) |-> SearchResult(ordered[i], q)] :
         ordered \in OrderByDistance(passing, q)}

\* -------------------------------------------------------- generateEmbeddings
\* variant: the texts are tested without trimming
IsEmptyTextUntrimmed(text) == text = <<>>

\* text.trim().length > 0 fails
IsEmptyText(text) == Trim(text) = <<>>

\* what the provider answers for one text: the vector of the embedding
\* model for that text.  The model is a fixed function of the text; the
\* questions q2 and q3 point in other directions than every other text.
ProviderVector(text) ==
  [len   |-> EmbeddingDim,
   comps |-> IF text = <<"q2">> THEN <<0, 1>>
             ELSE IF text = <<"q3">> THEN <<0, -1>>
             ELSE <<4, 3>>,
   of    |-> text]

\* generateEmbeddings(texts), the provider answering or failing: the
\* outcome, the number of calls of embedMany, and the vectors returned
generateEmbeddings(texts, providerAnswers) ==
  LET call == [status |-> "ok", texts |-> texts, providerCalls |-> 0,
               embeddings |-> <<>>]
  IN  IF Len(texts) = 0 THEN call
      ELSE IF \E i \in 1..Len(texts) : IsEmptyText(texts[i])
      THEN [call EXCEPT !.status = "error"]
      ELSE IF ~providerAnswers
      THEN [call EXCEPT !.status = "error", !.providerCalls = 1]
      ELSE [call EXCEPT !.providerCalls = 1,
              !.embeddings = [i \in 1..Len(texts) |-> ProviderVector(texts[i])]]

\* ------------------------------------------------------------------- files
\* A path is a directory and a file name, the name a sequence of atoms
\* whose last atom may be the extension.
Path(dir, name) == [dir |-> dir, name |-> name]

NoPath == Path(<<>>, <<>>)

\* basename(path, ".tsv")
Basename(path, ext) ==
  IF Len(path.name) > 1 /\ path.name[Len(path.name)] = ext
  THEN SubSeq(path.name, 1, Len(path.name) - 1)
  ELSE path.name

\* join(dirname(path), `${basename(path, ".tsv")}${suffix}.tsv`)
SiblingPath(path, suffix) ==
  Path(path.dir, Basename(path, ".tsv") \o <<suffix, ".tsv">>)

\* process.argv[3], when given
OmittedPath == [given |-> FALSE, v |-> NoPath]

\* writeFile(path, content): the disk afterwards
WriteFile(disk, path, content) ==
  [q \in (DOMAIN disk) \cup {path} |-> IF q = path THEN content ELSE disk[q]]

\* a disk holding one file
OneFile(path, content) == [q \in {path} |-> content]

\* ------------------------------------------------ scripts/add-embeddings-to-tsv
\* what a row holds before it is given an embedding
Undefined == [json |-> "undefined", len |-> 0, vals |-> <<>>, elems |-> "none"]

\* newEmbeddings[embeddingIndex], undefined beyond the end of the array
ElementOrUndefined(seq, i) == IF i \in 1..Len(seq) THEN seq[i] ELSE Undefined

\* parts.length < 4, or !documentTitle || !chunkContent: the line is skipped
ToolSkipsLine(line) == Len(line) < 4 \/ Falsy(line, 1) \/ Falsy(line, 4)

\* the row already has an embedding: the column starts with "[" and parses
HasExistingEmbedding(line) ==
  /\ ~FalsyEmbedding(line)
  /\ StartsWithBracket(line[5])
  /\ line[5].json = "array"

\* variant: only a column that does not start with "[" is embedded again
PushesTextUnlessBracket(line) == FalsyEmbedding(line) \/ ~StartsWithBracket(line[5])

\* textsToEmbed.push(chunkContent): in the else branch, and in the catch
\* block of JSON.parse
PushesText(line) ==
  IF ~FalsyEmbedding(line) /\ StartsWithBracket(line[5])
  THEN line[5].json # "array"
  ELSE TRUE

ToolRow(line) ==
  [documentTitle |-> Trim(line[1]),
   sourceUrl     |-> TrimOrEmpty(line, 2),
   sectionTitle  |-> TrimOrEmpty(line, 3),
   chunkContent  |-> Trim(line[4]),
   embedding     |-> IF HasExistingEmbedding(line) THEN line[5] ELSE Undefined]

\* the loop over contentLines: rows and textsToEmbed
RECURSIVE ToolParse(_, _)
ToolParse(acc, contentLines) ==
  IF contentLines = <<>> THEN acc
  ELSE LET line == Head(contentLines)
       IN  IF ToolSkipsLine(line) THEN ToolParse(acc, Tail(contentLines))
           ELSE ToolParse(
                  [rows |-> Append(acc.rows, ToolRow(line)),
                   textsToEmbed |-> IF PushesText(line)
                                    THEN Append(acc.textsToEmbed, line[4])
                                    ELSE acc.textsToEmbed],
                  Tail(contentLines))

\* the loop over rows that hands out newEmbeddings by embeddingIndex
RECURSIVE AssignEmbeddings(_, _, _)
AssignEmbeddings(rows, newEmbeddings, embeddingIndex) ==
  IF rows = <<>> THEN <<>>
  ELSE IF Head(rows).embedding = Undefined
  THEN <<[Head(rows) EXCEPT !.embedding =
            ElementOrUndefined(newEmbeddings, embeddingIndex)]>>
         \o AssignEmbeddings(Tail(rows), newEmbeddings, embeddingIndex + 1)
  ELSE <<Head(rows)>> \o AssignEmbeddings(Tail(rows), newEmbeddings, embeddingIndex)

\* `${documentTitle}\t${sourceUrl}\t${sectionTitle}\t${chunkContent}\t${JSON.stringify(embedding)}`
OutputLine(row) ==
  <<row.documentTitle, row.sourceUrl, row.sectionTitle, row.chunkContent, row.embedding>>

\* --------------------------------------------- scripts/generate-embeddings
\* !doc.documentTitle || !doc.chunks, or a chunk whose content is missing or
\* white space: the script throws
InvalidDocumentInput(doc) ==
  \/ doc.documentTitle = <<>>
  \/ \E i \in 1..Len(doc.chunks) : Trim(doc.chunks[i].content) = <<>>

\* allRows of one document, in the order of its chunks; the embedding is
\* added afterwards
DocumentRows(doc) ==
  [i \in 1..Len(doc.chunks) |->
     [documentTitle |-> doc.documentTitle,
      sourceUrl     |-> doc.sourceUrl,
      sectionTitle  |-> doc.chunks[i].sectionTitle,
      chunkContent  |-> doc.chunks[i].content,
      embedding     |-> Undefined]]

\* allRows: the rows of every document, in order
RECURSIVE AllRows(_)
AllRows(documents) ==
  IF documents = <<>> THEN <<>>
  ELSE DocumentRows(Head(documents)) \o AllRows(Tail(documents))

\* allTexts: pushed together with each row
AllTexts(documents) ==
  LET rows == AllRows(documents)
  IN  [i \in 1..Len(rows) |-> rows[i].chunkContent]

\* allRows.map((row, i) => ({...row, embedding: embeddings[i]}))
CompleteRows(rows, embeddings) ==
  [i \in 1..Len(rows) |->
     [rows[i] EXCEPT !.embedding = ElementOrUndefined(embeddings, i)]]

\* join(process.cwd(), "data/document-chunks.tsv")
DefaultTsvPath == Path(<<"cwd", "data">>, <<"document-chunks", ".tsv">>)

\* --------------------------------------------------- scripts/clean-encoding
\* Here a line is the sequence of its tab-separated fields, every field a
\* sequence of atoms, the embedding included.  Atoms that stand for single
\* characters outside ASCII:
ReplacementChar == "<fffd>"

SmartQuotes == {"<ldquo>", "<rdquo>"}

Dashes == {"<ndash>", "<mdash>"}

Nbsp == "<nbsp>"

\* the character replacements of cleanFieldContent, one atom at a time
RECURSIVE ReplaceChars(_)
ReplaceChars(text) ==
  IF text = <<>> THEN <<>>
  ELSE LET ch == Head(text)
           rest == ReplaceChars(Tail(text))
       IN  IF ch = ReplacementChar THEN rest
           ELSE IF ch \in SmartQuotes THEN <<"\"">> \o rest
           ELSE IF ch \in Dashes THEN <<"-">> \o rest
           ELSE IF ch = Nbsp THEN <<" ">> \o rest
           ELSE <<ch>> \o rest

\* .replace(/ +/g, " ")
RECURSIVE CollapseSpaces(_)
CollapseSpaces(text) ==
  IF Len(text) < 2 THEN text
  ELSE IF text[1] = " " /\ text[2] = " " THEN CollapseSpaces(Tail(text))
  ELSE <<Head(text)>> \o CollapseSpaces(Tail(text))

cleanFieldContent(text) == Trim(CollapseSpaces(ReplaceChars(text)))

\* line.trim(): tabs are white space, so blank fields at either end go
RECURSIVE TrimLineStart(_)
TrimLineStart(line) ==
  IF Len(line) > 1 /\ Trim(line[1]) = <<>> THEN TrimLineStart(Tail(line))
  ELSE <<TrimStart(line[1])>> \o Tail(line)

RECURSIVE TrimLineEnd(_)
TrimLineEnd(line) ==
  IF Len(line) > 1 /\ Trim(line[Len(line)]) = <<>>
  THEN TrimLineEnd(SubSeq(line, 1, Len(line) - 1))
  ELSE SubSeq(line, 1, Len(line) - 1) \o <<TrimEnd(line[Len(line)])>>

TrimLine(line) == TrimLineEnd(TrimLineStart(line))

\* the empty string
EmptyLine == <<<<>>>>

\* currentRow + " " + line
JoinWithSpace(currentRow, line) ==
  SubSeq(currentRow, 1, Len(currentRow) - 1)
    \o <<currentRow[Len(currentRow)] \o <<" ">> \o line[1]>>
    \o Tail(line)

\* the index of the first line that starts with document_title, else 1
RECURSIVE HeaderIndex(_, _)
HeaderIndex(lines, i) ==
  IF i > Len(lines) THEN 1
  ELSE IF LineStartsWith(lines[i], "document_title") THEN i
  ELSE HeaderIndex(lines, i + 1)

\* currentRow && fields.length < expectedFields
Continues(currentRow, fields, expectedFields) ==
  currentRow # EmptyLine /\ Len(fields) < expectedFields

\* the merge loop from line i on; repairedRows and currentRow so far
RECURSIVE RepairRows(_, _, _, _, _)
RepairRows(lines, i, expectedFields, repairedRows, currentRow) ==
  IF i > Len(lines)
  THEN IF currentRow # EmptyLine THEN Append(repairedRows, currentRow)
       ELSE repairedRows
  ELSE LET line == TrimLine(lines[i])
       IN  IF line = EmptyLine
           THEN RepairRows(lines, i + 1, expectedFields, repairedRows, currentRow)
           ELSE IF Continues(currentRow, line, expectedFields)
           THEN RepairRows(lines, i + 1, expectedFields, repairedRows,
                           JoinWithSpace(currentRow, line))
           ELSE RepairRows(lines, i + 1, expectedFields,
                           IF currentRow # EmptyLine
                           THEN Append(repairedRows, currentRow)
                           ELSE repairedRows,
                           line)

\* Step 2: every field of every repaired row is cleaned
CleanRows(repairedRows) ==
  [r \in 1..Len(repairedRows) |->
     [k \in 1..Len(repairedRows[r]) |-> cleanFieldContent(repairedRows[r][k])]]

\* ------------------------------------------------ components/kiosk-chat.tsx
\* clearTimeout(id): a pending timeout is cancelled, any other id is ignored
ClearTimeout(k, id) ==
  [k EXCEPT !.pending = {t \in @ : t.id # id},
            !.cancelled = @ \cup {t.id : t \in {u \in k.pending : u.id = id}}]

\* inactivityTimer.current = setTimeout(resetSession, INACTIVITY_TIMEOUT_MS)
SetTimeout(k) ==
  [k EXCEPT !.pending = @ \cup {[id |-> k.nextTimer, due |-> k.now + InactivityTimeout]},
            !.timerRef = k.nextTimer,
            !.nextTimer = @ + 1]

\* variant: the new timeout is scheduled without cancelling the current one
resetInactivityTimerKeeping(k) == SetTimeout(k)

resetInactivityTimer(k) ==
  SetTimeout(IF k.timerRef # 0 THEN ClearTimeout(k, k.timerRef) ELSE k)

resetSession(k) ==
  LET cleared == IF k.timerRef # 0
                 THEN [ClearTimeout(k, k.timerRef) EXCEPT !.timerRef = 0]
                 ELSE k
  IN  [cleared EXCEPT !.messages = <<>>, !.input = <<>>,
                      !.selectedRole = "none", !.session = @ + 1]

\* useEffect on [messages]: the cleanup of the previous run, then this run
MessagesEffect(k) ==
  LET cleaned == IF k.timerRef # 0 THEN ClearTimeout(k, k.timerRef) ELSE k
  IN  IF Len(cleaned.messages) > 0 THEN resetInactivityTimer(cleaned) ELSE cleaned

ChatMessage(role, session) == [role |-> role, session |-> session]

\* ------------------------------------------------------------ POST /api/chat
\* NO_RESULTS_MESSAGE
NoResultsMessage ==
  <<"I don't have information about that in my resources. Please ask a staff member for help.">>

\* [...messages].reverse().find(m => m.role === "user"): its index, 0 if none
RECURSIVE LastUserIndex(_)
LastUserIndex(messages) ==
  IF messages = <<>> THEN 0
  ELSE IF messages[Len(messages)].role = "user" THEN Len(messages)
  ELSE LastUserIndex(SubSeq(messages, 1, Len(messages) - 1))

\* formatSources: one source per document, in the order of the results
RECURSIVE FormatSources(_, _)
FormatSources(results, seen) ==
  IF results = <<>> THEN <<>>
  ELSE IF Head(results).documentId \in seen
  THEN FormatSources(Tail(results), seen)
  ELSE <<[title        |-> Head(results).documentTitle,
          sectionTitle |-> Head(results).sectionTitle,
          url          |-> Head(results).sourceUrl]>>
         \o FormatSources(Tail(results), seen \cup {Head(results).documentId})

\* ------------------------------------------------------------------- inputs
Header ==
  <<<<"document_title">>, <<"source_url">>, <<"section_title">>,
    <<"chunk_content">>, NotJson>>

E1 == JsonArray(EmbeddingDim, <<1>>)

E2 == JsonArray(EmbeddingDim, <<2>>)

\* two rows of document (a, no source) with the same content, a third row of
\* it with other content, and two rows whose group keys both read "a|b|"
WellFormedLines ==
  { <<<<"a">>, <<>>, <<"s1">>, <<"c1">>, E1>>,
    <<<<"a">>, <<>>, <<"s2">>, <<"c1">>, E2>>,
    <<<<"a">>, <<>>, <<>>, <<"c2">>, E1>>,
    <<<<"a">>, <<"b", "|">>, <<"s1">>, <<"c1">>, E1>>,
    <<<<"a", "|", "b">>, <<>>, <<"s1">>, <<"c1">>, E1>> }

\* a line without its embedding column
MalformedLines == { <<<<"a">>, <<>>, <<"s1">>, <<"c1">>>> }

RECURSIVE SeqsUpTo(_, _)
SeqsUpTo(S, n) ==
  IF n = 0 THEN {<<>>}
  ELSE LET shorter == SeqsUpTo(S, n - 1)
       IN  shorter \cup {Append(q, x) : q \in {r \in shorter : Len(r) = n - 1}, x \in S}

\* a file is the header followed by data lines; a malformed line, when
\* present, stands alone after the well-formed ones
FilesUpTo(n) ==
  {<<Header>> \o ls : ls \in SeqsUpTo(WellFormedLines, n)}
    \cup {<<Header>> \o Append(ls, m) :
            ls \in SeqsUpTo(WellFormedLines, 1), m \in MalformedLines}

Files == FilesUpTo(MaxRows)

LongFiles == FilesUpTo(MaxLongRows)

ConcFiles == {<<Header>> \o ls : ls \in SeqsUpTo(WellFormedLines, MaxConcRows) \ {<<>>}}

Procs == {1, 2}

\* lines of every kind parseTSV tells apart: two well-formed rows of two
\* documents, a comment, a blank line, the header, a row whose title begins
\* with the header's field name, rows whose title or content is white space
\* or empty, and rows whose embedding text is missing, no JSON, an array of
\* the wrong length, an array of strings, or an array of numeral strings
GoodLineA == <<<<"a">>, <<>>, <<"s1">>, <<"c1">>, E1>>

GoodLineB == <<<<"b">>, <<>>, <<"s1">>, <<"c2">>, E2>>

CommentLine == <<<<"#", "n">>>>

BlankLine == <<<<" ">>>>

TitledLikeHeader == <<<<"document_title", "s">>, <<>>, <<"s1">>, <<"c1">>, E1>>

BlankTitleLine == <<<<" ">>, <<>>, <<"s1">>, <<"c1">>, E1>>

BlankContentLine == <<<<"a">>, <<>>, <<"s1">>, <<" ">>, E1>>

EmptyTitleLine == <<<<>>, <<>>, <<"s1">>, <<"c1">>, E1>>

WrongLengthLine == <<<<"a">>, <<>>, <<"s1">>, <<"c1">>, JsonArray(EmbeddingDim - 1, <<1>>)>>

NotJsonLine == <<<<"a">>, <<>>, <<"s1">>, <<"c1">>, NotJson>>

StringArrayLine == <<<<"a">>, <<>>, <<"s1">>, <<"c1">>, JsonStringArray(EmbeddingDim)>>

NumeralArrayLine == <<<<"a">>, <<>>, <<"s1">>, <<"c1">>, JsonNumeralArray(EmbeddingDim, <<1>>)>>

ParseLines ==
  { GoodLineA, GoodLineB, CommentLine, BlankLine, Header, TitledLikeHeader,
    BlankTitleLine, BlankContentLine, EmptyTitleLine, WrongLengthLine,
    NotJsonLine, StringArrayLine, NumeralArrayLine } \cup MalformedLines

\* any lines in any order: the header may come late or not at all
ParseFiles == SeqsUpTo(ParseLines, MaxParseRows)

\* For searches: line i of the longest file has its own content, belongs
\* to one of two documents and has the i-th direction as its embedding; the
\* second and third directions are parallel, so their distances tie
Directions ==
  << <<5, 0>>, <<4, 3>>, <<8, 6>>, <<3, 4>>, <<0, 5>>, <<-3, 4>>, <<-5, 0>>, <<0, -5>> >>

Contents == << <<"c1">>, <<"c2">>, <<"c3">>, <<"c4">>, <<"c5">>, <<"c6">>, <<"c7">>, <<"c8">> >>

SearchLine(i) ==
  << IF i % 2 = 1 THEN <<"a">> ELSE <<"b">>, <<>>, <<"s1">>,
     Contents[((i - 1) % Len(Contents)) + 1],
     JsonArray(EmbeddingDim, Directions[((i - 1) % Len(Directions)) + 1]) >>

\* the files made of some of the first n lines, in their order
RECURSIVE SubFiles(_)
SubFiles(n) ==
  IF n = 0 THEN {<<>>}
  ELSE SubFiles(n - 1) \cup {Append(f, SearchLine(n)) : f \in SubFiles(n - 1)}

SearchFiles == {<<Header>> \o f : f \in SubFiles(MaxSearchRows)}

\* query vectors of the right length, and one that is too short
Queries ==
  { [len |-> EmbeddingDim, comps |-> <<4, 3>>],
    [len |-> EmbeddingDim, comps |-> <<0, 1>>],
    [len |-> EmbeddingDim - 1, comps |-> <<4, 3>>] }

\* limit: omitted, or given (the chat route gives 5)
LimitArgs == {OmittedLimit, Given(1), Given(2)}

\* similarityThreshold: omitted, 0.3 as the chat route gives it, or 0
ThresholdArgs == {OmittedThreshold, Given(Ratio(3, 10)), Given(Ratio(0, 1))}

\* For the chat: the files of the first lines, the message lists a client
\* may post, and the texts the language model may answer with
ChatFiles == {<<Header>> \o f : f \in SubFiles(MaxChatRows)}

UserMessage(text) == [role |-> "user", content |-> text]

AssistantMessage(text) == [role |-> "assistant", content |-> text]

ChatRequests ==
  { <<>>,
    <<AssistantMessage(<<"hello">>)>>,
    <<UserMessage(<<>>)>>,
    <<UserMessage(<<" ">>)>>,
    <<UserMessage(<<"q1">>)>>,
    <<UserMessage(<<"q2">>), AssistantMessage(<<"answer">>), UserMessage(<<"q3">>)>> }

ModelTexts == {NoResultsMessage, <<>>, <<"Call", " ", "555-0100">>}

\* For generateEmbeddings: lists of texts, some empty or white space
EmbedTexts == {<<>>, <<" ">>, <<"x">>, <<" ", "y">>, <<"q2">>}

TextLists == SeqsUpTo(EmbedTexts, MaxTexts)

\* const rows = await parseTSV(filepath) and the grouping loop
\* lines given to add-embeddings-to-tsv: a row without the embedding column,
\* rows whose embedding is an array of the model's length, an array of
\* another length, an array cut off, and text that is no array, and rows
\* that are skipped for having three fields or no title
ToolLines ==
  { <<<<"a">>, <<>>, <<"s1">>, <<"c1">>>>,
    <<<<"a">>, <<>>, <<"s1">>, <<"c2">>, E1>>,
    <<<<"a">>, <<>>, <<"s1">>, <<"c3">>, TruncatedArray>>,
    <<<<"a">>, <<>>, <<"s1">>, <<"c4">>, NotJson>>,
    <<<<"a">>, <<>>, <<"s1">>>>,
    <<<<>>, <<>>, <<"s1">>, <<"c5">>>>,
    <<<<"a">>, <<>>, <<"s1">>, <<"c6">>, JsonArray(2, <<9>>)>> }

ToolFiles == {<<Header>> \o ls : ls \in SeqsUpTo(ToolLines, MaxToolRows)}

\* inputs of generate-embeddings: documents of no, one or two chunks
ChunkInput(section, content) == [sectionTitle |-> section, content |-> content]

DocumentInput(title, chunkInputs) ==
  [documentTitle |-> title, sourceUrl |-> <<>>, chunks |-> chunkInputs]

DocumentInputs ==
  { DocumentInput(<<"a">>, <<ChunkInput(<<"s1">>, <<"c1">>), ChunkInput(<<"s2">>, <<"c2">>)>>),
    DocumentInput(<<"b">>, <<ChunkInput(<<>>, <<"c3">>)>>),
    DocumentInput(<<"c">>, <<>>),
    DocumentInput(<<"d">>, <<ChunkInput(<<"s1">>, <<" ">>)>>) }

JsonInputs == SeqsUpTo(DocumentInputs, 2)

TsvInputPath == Path(<<"data">>, <<"chunks", ".tsv">>)

JsonInputPath == Path(<<"data">>, <<"chunks", ".json">>)

GivenOutputPath == Path(<<"out">>, <<"result", ".tsv">>)

OutputArgs == {OmittedPath, Given(GivenOutputPath)}

\* lines given to clean-encoding: an intact row, the three kinds of pieces
\* of a row whose content field holds line breaks, a blank line, and an
\* intact row with characters that are cleaned
CleanHeader ==
  <<<<"document_title">>, <<"source_url">>, <<"section_title">>,
    <<"chunk_content">>, <<"embedding">>>>

IntactLine == <<<<"a">>, <<"u">>, <<"s1">>, <<"c1">>, <<"[1]">>>>

FirstPiece == <<<<"b">>, <<"u">>, <<"s1">>, <<"c2">>>>

MiddlePiece == <<<<"c3">>>>

LastPiece == <<<<"c4">>, <<"[2]">>>>

DirtyLine == <<<<"d">>, <<"u">>, <<"s1">>, <<"<ldquo>", "c5", "<fffd>", " ", " ", "<ndash>">>, <<"[3]">>>>

CleanLines ==
  {IntactLine, FirstPiece, MiddlePiece, LastPiece, DirtyLine, <<<<" ">>>>}

CleanFiles == {<<CleanHeader>> \o ls : ls \in SeqsUpTo(CleanLines, MaxCleanLines)}

CleanOutputArgs == {OmittedPath, Given(GivenOutputPath), Given(TsvInputPath)}

\* the roles of the three buttons, and what the user types
Roles == {"staff", "student", "parent"}

Inputs == {<<>>, <<" ">>, <<"q">>}

ParseAndGroup(f) ==
  LET parsed == parseTSV(f)
  IN  [ok |-> parsed.ok, totalRows |-> Len(parsed.rows),
       groups |-> documentGroups(parsed.rows)]

\* the same, tabulated for the files that are imported again and again
Prepared == [f \in Files |-> ParseAndGroup(f)]

\* ------------------------------------------- importChunksFromTSV as a whole
\* One uninterrupted call on store st = [docs, chunks], new ids from id on:
\* the loops of the function, with nothing else touching the store.
RECURSIVE ImportChunkLoop(_, _, _)
ImportChunkLoop(st, documentId, rows) ==
  IF rows = <<>> THEN st
  ELSE LET chunk == Head(rows)
       IN  IF SelectChunks(st.chunks, documentId, chunk.chunkContent) # {}
           THEN ImportChunkLoop([st EXCEPT !.chunksSkipped = @ + 1],
                                documentId, Tail(rows))
           ELSE IF ~VectorAccepted(ToVector(chunk.embedding))
           THEN [st EXCEPT !.failed = TRUE]
           ELSE ImportChunkLoop(
                  [st EXCEPT !.chunks = @ \cup {NewChunk(st.nextId, documentId, chunk)},
                             !.nextId = @ + 1,
                             !.chunksCreated = @ + 1],
                  documentId, Tail(rows))

RECURSIVE ImportGroupLoop(_, _)
ImportGroupLoop(st, groups) ==
  IF groups = <<>> \/ st.failed THEN st
  ELSE LET firstChunk == Head(groups).chunks[1]
           existingDocs == SelectDocuments(st.docs, firstChunk.documentTitle,
                                           firstChunk.sourceUrl)
           documentId == IF existingDocs # {}
                         THEN (CHOOSE d \in existingDocs : TRUE).id
                         ELSE st.nextId
           st1 == IF existingDocs # {} THEN st
                  ELSE [st EXCEPT
                          !.docs = @ \cup {NewDocument(st.nextId, firstChunk.documentTitle,
                                                       firstChunk.sourceUrl)},
                          !.nextId = @ + 1,
                          !.documentsCreated = @ + 1]
       IN  ImportGroupLoop(ImportChunkLoop(st1, documentId, Head(groups).chunks),
                           Tail(groups))

importChunksFromTSV(store, id, file) ==
  LET parsed == parseTSV(file)
      st0 == [docs |-> store.docs, chunks |-> store.chunks, nextId |-> id,
              documentsCreated |-> 0, chunksCreated |-> 0, chunksSkipped |-> 0,
              failed |-> ~parsed.ok]
  IN  IF parsed.ok THEN ImportGroupLoop(st0, documentGroups(parsed.rows)) ELSE st0

\* ------------------------------------------------------------ the run state
Store == [docs |-> docs, chunks |-> chunks]

EmptyStore == [docs |-> {}, chunks |-> {}]

\* no call of searchSimilarChunks made yet.  A call records its arguments,
\* the limit and threshold it used, the store it met, the number of
\* queries it sent to the store, and what it returned.
NoSearch ==
  [status |-> "none", query |-> [len |-> 0, comps |-> <<>>],
   limitGiven |-> FALSE, limit |-> 0, threshold |-> [dot |-> 0, nn |-> 1],
   storeQueries |-> 0, results |-> <<>>, store |-> EmptyStore]

\* pc: the await the run is at.  attempt, S and S0 are history: what the
\* previous run of this process was, the store when this run started, and the
\* store when the first attempt on this file started.  selects and attached
\* record the document lookups made and the document each row was given.
\* error: what made the call throw ("parse", "store") when pc = "failed".
IdleRun ==
  [pc |-> "idle", error |-> "none", file |-> <<>>, updateExisting |-> FALSE,
   groups |-> <<>>, totalRows |-> 0, g |-> 0, c |-> 0, documentId |-> 0,
   documentsCreated |-> 0, chunksCreated |-> 0, chunksSkipped |-> 0,
   attempt |-> "fresh", S |-> EmptyStore, S0 |-> EmptyStore,
   selects |-> <<>>, attached |-> {}]

Running == {"selectDoc", "insertDoc", "selectChunk", "insertChunk"}

\* no request to the chat endpoint made yet
NoChat ==
  [status |-> "none", httpStatus |-> 0, message |-> <<>>, sources |-> <<>>,
   retrieved |-> 0, modelCalls |-> 0]

\* no call of generateEmbeddings made yet
NoEmbed ==
  [status |-> "none", texts |-> <<>>, providerCalls |-> 0, embeddings |-> <<>>]

\* no tool run yet.  A run records its paths, the input file as it was
\* read, the texts sent to generateEmbeddings and the rows written.
NoTool ==
  [name |-> "none", status |-> "none", inputPath |-> NoPath,
   outputPath |-> NoPath, inputBefore |-> <<>>, requested |-> <<>>,
   rows |-> <<>>]

\* no file on the disk
NoFiles == <<>>

\* the component as mounted.  Beside the component's state and its timer
\* ref, the record holds the browser's pending timeouts and clock (minutes),
\* the request in flight, and history: the number of resets so far
\* (session), the ids of timeouts cancelled while pending and of timeouts
\* fired, the time of the last interaction, the last event, and the idle
\* time at the last reset by timeout (-1: none yet).
InitialKiosk ==
  [messages |-> <<>>, input |-> <<>>, isLoading |-> FALSE, error |-> FALSE,
   selectedRole |-> "none", timerRef |-> 0, pending |-> {}, now |-> 0,
   inflight |-> [active |-> FALSE, session |-> 0], session |-> 0,
   nextTimer |-> 1, cancelled |-> {}, fired |-> {}, lastInteraction |-> 0,
   lastEvent |-> "mount", timeoutGap |-> -1, startOvers |-> 0]

\* the empty store, nothing running
InitStore ==
  /\ docs = {}
  /\ chunks = {}
  /\ nextId = 1
  /\ run = [p \in Procs |-> IdleRun]
  /\ runsStarted = 0
  /\ search = NoSearch

InitApp ==
  /\ chat = NoChat
  /\ embed = NoEmbed
  /\ tool = NoTool
  /\ kiosk = InitialKiosk

Init == InitStore /\ InitApp /\ fs = NoFiles

\* ------------------------------------------------------------------ actions
\* scripts/import.ts calls importChunksFromTSV(filepath, {updateExisting});
\* the function declares one parameter, so the option is received by nobody.
\* parseTSV and the grouping loop run before the first store call.
StartImportAs(p, f, u, parsed) ==
  /\ run[p].pc \notin Running
  /\ runsStarted < MaxRuns
  /\ runsStarted' = runsStarted + 1
  /\ LET groups == parsed.groups
         prev   == run[p]
         same   == prev.file = f /\ prev.updateExisting = u
         att    == IF same /\ prev.pc = "done" THEN "afterDone"
                   ELSE IF same /\ prev.pc = "crashed" THEN "afterCrash"
                   ELSE "fresh"
     IN  run' = [run EXCEPT ![p] =
           [IdleRun EXCEPT
              !.pc = IF ~parsed.ok THEN "failed"
                     ELSE IF groups = <<>> THEN "done" ELSE "selectDoc",
              !.error = IF ~parsed.ok THEN "parse" ELSE "none",
              !.file = f,
              !.updateExisting = u,
              !.groups = groups,
              !.totalRows = parsed.totalRows,
              !.g = 1,
              !.attempt = att,
              !.S = Store,
              !.S0 = IF att = "afterCrash" THEN prev.S0 ELSE Store]]
  /\ UNCHANGED <<appVars, docs, chunks, nextId, search>>

StartImport(p, f, u) == StartImportAs(p, f, u, ParseAndGroup(f))

\* the same call on a file whose rows and groups are tabulated
StartImportTabulated(p, f, u) == StartImportAs(p, f, u, Prepared[f])

FirstChunk(r) == r.groups[r.g].chunks[1]

CurrentChunk(r) == r.groups[r.g].chunks[r.c]

\* end of one iteration of the chunk loop: next chunk, next group or return
Advance(r) ==
  IF r.c < Len(r.groups[r.g].chunks) THEN [r EXCEPT !.c = @ + 1, !.pc = "selectChunk"]
  ELSE IF r.g < Len(r.groups) THEN [r EXCEPT !.g = @ + 1, !.c = 0, !.pc = "selectDoc"]
  ELSE [r EXCEPT !.pc = "done"]

\* await db.select().from(documents)... ; existingDocs[0] when there is one
SelectDocument(p) ==
  /\ run[p].pc = "selectDoc"
  /\ LET r        == run[p]
         first    == FirstChunk(r)
         existing == SelectDocuments(docs, first.documentTitle, first.sourceUrl)
         r1       == [r EXCEPT !.selects =
                        Append(@, <<first.documentTitle, first.sourceUrl>>)]
     IN  IF existing # {}
         THEN \E d \in existing :
                run' = [run EXCEPT ![p] =
                  [r1 EXCEPT !.documentId = d.id, !.c = 1, !.pc = "selectChunk"]]
         ELSE run' = [run EXCEPT ![p] = [r1 EXCEPT !.pc = "insertDoc"]]
  /\ UNCHANGED <<appVars, docs, chunks, nextId, runsStarted, search>>

\* await db.insert(documents).values(...).returning()
InsertDocument(p) ==
  /\ run[p].pc = "insertDoc"
  /\ LET r     == run[p]
         first == FirstChunk(r)
     IN  /\ docs' = docs \cup {NewDocument(nextId, first.documentTitle, first.sourceUrl)}
         /\ run' = [run EXCEPT ![p] =
              [r EXCEPT !.documentId = nextId,
                        !.documentsCreated = @ + 1,
                        !.c = 1,
                        !.pc = "selectChunk"]]
  /\ nextId' = nextId + 1
  /\ UNCHANGED <<appVars, chunks, runsStarted, search>>

Attach(r) ==
  [r EXCEPT !.attached = @ \cup
     {<<CurrentChunk(r).documentTitle, CurrentChunk(r).sourceUrl, r.documentId>>}]

\* variant: a found chunk is overwritten with the row's values
SelectChunkUpdating(p) ==
  /\ run[p].pc = "selectChunk"
  /\ LET r        == run[p]
         row      == CurrentChunk(r)
         existing == SelectChunks(chunks, r.documentId, row.chunkContent)
     IN  IF existing # {}
         THEN /\ run' = [run EXCEPT ![p] =
                   Advance([Attach(r) EXCEPT !.chunksSkipped = @ + 1])]
              /\ chunks' = (chunks \ existing) \cup
                   {[e EXCEPT !.sectionTitle = OrNull(row.sectionTitle),
                              !.embedding = ToVector(row.embedding)] : e \in existing}
         ELSE /\ run' = [run EXCEPT ![p] = [r EXCEPT !.pc = "insertChunk"]]
              /\ chunks' = chunks
  /\ UNCHANGED <<appVars, docs, nextId, runsStarted, search>>

\* await db.select().from(textChunks)... ; a found chunk is skipped
SelectChunk(p) ==
  /\ run[p].pc = "selectChunk"
  /\ LET r        == run[p]
         existing == SelectChunks(chunks, r.documentId, CurrentChunk(r).chunkContent)
     IN  IF existing # {}
         THEN run' = [run EXCEPT ![p] =
                Advance([Attach(r) EXCEPT !.chunksSkipped = @ + 1])]
         ELSE run' = [run EXCEPT ![p] = [r EXCEPT !.pc = "insertChunk"]]
  /\ UNCHANGED <<appVars, docs, chunks, nextId, runsStarted, search>>

\* await db.insert(textChunks).values(...): the store rejects a literal
\* that is no vector(1536) and a document_id that references no Document;
\* the rejection is thrown out of importChunksFromTSV, which catches nothing
InsertChunk(p) ==
  /\ run[p].pc = "insertChunk"
  /\ LET r     == run[p]
         chunk == NewChunk(nextId, r.documentId, CurrentChunk(r))
     IN  IF /\ VectorAccepted(chunk.embedding)
            /\ \E d \in docs : d.id = chunk.documentId
         THEN /\ chunks' = chunks \cup {chunk}
              /\ run' = [run EXCEPT ![p] =
                   Advance([Attach(r) EXCEPT !.chunksCreated = @ + 1])]
              /\ nextId' = nextId + 1
         ELSE /\ run' = [run EXCEPT ![p] = [r EXCEPT !.pc = "failed", !.error = "store"]]
              /\ UNCHANGED <<chunks, nextId>>
  /\ UNCHANGED <<appVars, docs, runsStarted, search>>

\* the process is killed between two store calls; committed rows stay
Crash(p) ==
  /\ run[p].pc \in Running
  /\ run' = [run EXCEPT ![p].pc = "crashed"]
  /\ UNCHANGED <<appVars, docs, chunks, nextId, runsStarted, search>>

\* the operator runs the same command again, after a crash or a success
RestartImport(p) ==
  /\ run[p].pc \in {"crashed", "done"}
  /\ StartImport(p, run[p].file, run[p].updateExisting)

\* searchSimilarChunks(queryEmbedding, limit, similarityThreshold): the
\* length check, then one query of the store
Search(q, limitArg, thresholdArg) ==
  /\ LET limit     == WithDefault(limitArg, DefaultLimit)
         threshold == WithDefault(thresholdArg, DefaultThreshold)
         call      == [NoSearch EXCEPT !.query = q, !.limit = limit,
                                       !.limitGiven = limitArg.given,
                                       !.threshold = threshold, !.store = Store]
     IN  IF ~QueryAccepted(q)
         THEN search' = [call EXCEPT !.status = "error"]
         ELSE \E results \in QueryResults(docs, chunks, q, limit, threshold) :
                search' = [call EXCEPT !.status = "ok", !.storeQueries = 1,
                                       !.results = results]
  /\ UNCHANGED <<appVars, docs, chunks, nextId, run, runsStarted>>

\* delete from documents where id = d.id, with the cascade of the foreign key
DeleteDocument(d) ==
  /\ d \in docs
  /\ docs' = docs \ {d}
  /\ chunks' = DeleteChunksOf(chunks, d.id)
  /\ UNCHANGED <<appVars, nextId, run, runsStarted, search>>

\* POST(req): the last user message, its embedding, the search with limit 5
\* and threshold 0.3, the call of the language model, and the response.
\* The model answers with any text, or the call fails; an exception that
\* leaves the handler is answered with status 500 by the framework.
PostChat(messages, providerAnswers, modelAnswers, modelText) ==
  /\ LET last     == LastUserIndex(messages)
         userText == messages[last].content
         call     == generateEmbeddings(<<userText>>, providerAnswers)
         query    == call.embeddings[1]
         limit    == 5
         threshold == Ratio(3, 10)
         asked    == [NoSearch EXCEPT !.query = query, !.limit = limit,
                                      !.limitGiven = TRUE,
                                      !.threshold = threshold, !.store = Store]
     IN  IF last = 0
         THEN /\ chat' = [NoChat EXCEPT !.status = "done", !.httpStatus = 400,
                                         !.message = <<"No user message found">>]
              /\ UNCHANGED <<embed, search>>
         ELSE IF userText = <<>>
         THEN /\ chat' = [NoChat EXCEPT !.status = "done", !.httpStatus = 400,
                                         !.message = <<"Empty user message">>]
              /\ UNCHANGED <<embed, search>>
         ELSE IF call.status = "error"
         THEN /\ chat' = [NoChat EXCEPT !.status = "done", !.httpStatus = 500]
              /\ embed' = call
              /\ UNCHANGED search
         ELSE IF ~QueryAccepted(query)
         THEN /\ chat' = [NoChat EXCEPT !.status = "done", !.httpStatus = 500]
              /\ embed' = call
              /\ search' = [asked EXCEPT !.status = "error"]
         ELSE \E results \in QueryResults(docs, chunks, query, limit, threshold) :
                /\ embed' = call
                /\ search' = [asked EXCEPT !.status = "ok", !.storeQueries = 1,
                                           !.results = results]
                /\ chat' =
                     IF modelAnswers
                     THEN [NoChat EXCEPT !.status = "done", !.httpStatus = 200,
                                         !.message = modelText,
                                         !.sources = FormatSources(results, {}),
                                         !.retrieved = Len(results),
                                         !.modelCalls = 1]
                     ELSE [NoChat EXCEPT !.status = "done", !.httpStatus = 500,
                                         !.retrieved = Len(results),
                                         !.modelCalls = 1]
  /\ UNCHANGED <<docs, chunks, nextId, run, runsStarted, tool, fs, kiosk>>

\* a caller awaits generateEmbeddings(texts)
GenerateEmbeddings(texts, providerAnswers) ==
  /\ embed' = generateEmbeddings(texts, providerAnswers)
  /\ UNCHANGED <<storeVars, chat, tool, fs, kiosk>>

\* the exit of a tool that threw: nothing is written
ToolFails(name, inputPath, outputPath) ==
  [NoTool EXCEPT !.name = name, !.status = "failed", !.inputPath = inputPath,
                 !.outputPath = outputPath, !.inputBefore = fs[inputPath]]

\* bun scripts/add-embeddings-to-tsv.ts <input.tsv> [output.tsv]
AddEmbeddingsToTsv(inputPath, outputArg, providerAnswers) ==
  /\ inputPath \in DOMAIN fs
  /\ LET outputPath == IF outputArg.given THEN outputArg.v
                       ELSE SiblingPath(inputPath, "-embedded")
         content == fs[inputPath]
         lines == SelectSeq(content, LAMBDA l : ~IsBlankLine(l))
         dataLines == SelectSeq(lines, LAMBDA l : ~LineStartsWith(l, "#"))
         parsed == ToolParse([rows |-> <<>>, textsToEmbed |-> <<>>],
                             Tail(dataLines))
         call == generateEmbeddings(parsed.textsToEmbed, providerAnswers)
         failed == ToolFails("add-embeddings-to-tsv", inputPath, outputPath)
     IN  IF dataLines = <<>> \/ parsed.rows = <<>>
         THEN tool' = failed /\ UNCHANGED <<fs, embed>>
         ELSE IF parsed.textsToEmbed = <<>>
         THEN /\ tool' = [failed EXCEPT !.status = "done", !.rows = parsed.rows]
              /\ fs' = WriteFile(fs, outputPath,
                          <<Header>> \o [i \in 1..Len(parsed.rows) |->
                                           OutputLine(parsed.rows[i])])
              /\ UNCHANGED embed
         ELSE IF call.status = "error"
         THEN /\ tool' = [failed EXCEPT !.requested = parsed.textsToEmbed]
              /\ embed' = call
              /\ UNCHANGED fs
         ELSE LET rows == AssignEmbeddings(parsed.rows, call.embeddings, 1)
              IN  /\ tool' = [failed EXCEPT !.status = "done",
                                 !.requested = parsed.textsToEmbed,
                                 !.rows = rows]
                  /\ embed' = call
                  /\ fs' = WriteFile(fs, outputPath,
                              <<Header>> \o [i \in 1..Len(rows) |-> OutputLine(rows[i])])
  /\ UNCHANGED <<storeVars, chat, kiosk>>

\* bun scripts/generate-embeddings.ts <input.json> [output.tsv]
GenerateEmbeddingsScript(inputPath, outputArg, providerAnswers) ==
  /\ inputPath \in DOMAIN fs
  /\ LET outputPath == IF outputArg.given THEN outputArg.v ELSE DefaultTsvPath
         documents == fs[inputPath]
         allRows == AllRows(documents)
         allTexts == AllTexts(documents)
         call == generateEmbeddings(allTexts, providerAnswers)
         failed == ToolFails("generate-embeddings", inputPath, outputPath)
     IN  IF \/ \E i \in 1..Len(documents) : InvalidDocumentInput(documents[i])
            \/ allTexts = <<>>
         THEN tool' = failed /\ UNCHANGED <<fs, embed>>
         ELSE IF call.status = "error"
         THEN /\ tool' = [failed EXCEPT !.requested = allTexts]
              /\ embed' = call
              /\ UNCHANGED fs
         ELSE LET rows == CompleteRows(allRows, call.embeddings)
              IN  /\ tool' = [failed EXCEPT !.status = "done",
                                 !.requested = allTexts, !.rows = rows]
                  /\ embed' = call
                  /\ fs' = WriteFile(fs, outputPath,
                              <<Header>> \o [i \in 1..Len(rows) |-> OutputLine(rows[i])])
  /\ UNCHANGED <<storeVars, chat, kiosk>>

\* bun scripts/clean-encoding.ts <input.tsv> [output.tsv]
CleanEncoding(inputPath, outputArg) ==
  /\ inputPath \in DOMAIN fs
  /\ LET outputPath == IF outputArg.given THEN outputArg.v
                       ELSE SiblingPath(inputPath, "-clean")
         lines == fs[inputPath]
         headerIndex == HeaderIndex(lines, 1)
         header == lines[headerIndex]
         repairedRows == RepairRows(lines, headerIndex + 1, Len(header),
                                    <<>>, EmptyLine)
         cleanedRows == CleanRows(repairedRows)
     IN  /\ tool' = [NoTool EXCEPT !.name = "clean-encoding", !.status = "done",
                        !.inputPath = inputPath, !.outputPath = outputPath,
                        !.inputBefore = lines, !.rows = cleanedRows]
         /\ fs' = WriteFile(fs, outputPath, <<header>> \o cleanedRows)
  /\ UNCHANGED <<storeVars, chat, embed, kiosk>>

\* a role button, shown while there is neither a message nor a role
SelectRole(r) ==
  /\ kiosk.messages = <<>>
  /\ kiosk.selectedRole = "none"
  /\ kiosk' = [kiosk EXCEPT !.selectedRole = r, !.lastInteraction = kiosk.now,
                            !.lastEvent = "selectRole"]
  /\ UNCHANGED <<storeVars, chat, embed, tool, fs>>

\* onChange of the textarea, shown once a role is selected and disabled
\* while a request is in flight
TypeInput(text) ==
  /\ kiosk.selectedRole # "none"
  /\ ~kiosk.isLoading
  /\ text # kiosk.input
  /\ kiosk' = [kiosk EXCEPT !.input = text, !.lastInteraction = kiosk.now,
                            !.lastEvent = "type"]
  /\ UNCHANGED <<storeVars, chat, embed, tool, fs>>

\* a timeout scheduled now is due before the clock stops
CanSchedule(timeouts) ==
  /\ kiosk.nextTimer + timeouts - 1 <= MaxTimers
  /\ kiosk.now + InactivityTimeout <= MaxTime

\* handleSubmit up to its await, and the effect of the new messages
HandleSubmit ==
  /\ kiosk.selectedRole # "none"
  /\ Trim(kiosk.input) # <<>>
  /\ ~kiosk.isLoading
  /\ Len(kiosk.messages) < MaxMessages
  /\ CanSchedule(2)
  /\ LET sent == [kiosk EXCEPT
                    !.messages = Append(@, ChatMessage("user", kiosk.session)),
                    !.input = <<>>, !.isLoading = TRUE, !.error = FALSE,
                    !.inflight = [active |-> TRUE, session |-> kiosk.session],
                    !.lastInteraction = kiosk.now, !.lastEvent = "submit"]
     IN  kiosk' = MessagesEffect(resetInactivityTimer(sent))
  /\ UNCHANGED <<storeVars, chat, embed, tool, fs>>

\* handleSubmit after its await: the response, or the failure, of the fetch
HandleResponse(ok) ==
  /\ kiosk.inflight.active
  /\ ok => CanSchedule(1)
  /\ LET done == [kiosk EXCEPT !.isLoading = FALSE,
                               !.inflight = [active |-> FALSE, session |-> 0]]
     IN  kiosk' =
           IF ok
           THEN MessagesEffect(
                  [done EXCEPT
                     !.messages = Append(@, ChatMessage("assistant", kiosk.inflight.session)),
                     !.lastInteraction = kiosk.now, !.lastEvent = "answer"])
           ELSE [done EXCEPT !.error = TRUE, !.lastEvent = "failure"]
  /\ UNCHANGED <<storeVars, chat, embed, tool, fs>>

\* the Start Over button, shown once a role is selected
StartOver ==
  /\ kiosk.selectedRole # "none"
  /\ kiosk.startOvers < MaxStartOvers
  /\ kiosk' = [MessagesEffect(resetSession(kiosk)) EXCEPT
                 !.lastInteraction = kiosk.now, !.lastEvent = "startOver",
                 !.startOvers = @ + 1]
  /\ UNCHANGED <<storeVars, chat, embed, tool, fs>>

\* a pending timeout that is due calls resetSession
TimeoutFires ==
  /\ \E t \in kiosk.pending :
       /\ t.due <= kiosk.now
       /\ LET firing == [kiosk EXCEPT !.pending = @ \ {t},
                                      !.fired = @ \cup {t.id},
                                      !.timeoutGap = kiosk.now - kiosk.lastInteraction,
                                      !.lastEvent = "timeout"]
          IN  kiosk' = MessagesEffect(resetSession(firing))
  /\ UNCHANGED <<storeVars, chat, embed, tool, fs>>

\* a minute passes; a timeout that is due fires first
Tick ==
  /\ kiosk.now < MaxTime
  /\ \A t \in kiosk.pending : t.due > kiosk.now
  /\ kiosk' = [kiosk EXCEPT !.now = @ + 1]
  /\ UNCHANGED <<storeVars, chat, embed, tool, fs>>

\* ----------------------------------------------------------- specifications
\* Spec: one import process without --update, on one file after another;
\* runs never overlap
Next ==
  \/ \E f \in Files : StartImportTabulated(1, f, FALSE)
  \/ SelectDocument(1)
  \/ InsertDocument(1)
  \/ SelectChunk(1)
  \/ InsertChunk(1)

Spec == Init /\ [][Next]_vars

\* SpecRerun: one import of a longer file that may be killed at any await
\* and is run again on the same file, after a crash or after a success
NextRerun ==
  \/ \E f \in LongFiles : run[1].pc = "idle" /\ StartImport(1, f, FALSE)
  \/ RestartImport(1)
  \/ SelectDocument(1)
  \/ InsertDocument(1)
  \/ SelectChunk(1)
  \/ InsertChunk(1)
  \/ Crash(1)

SpecRerun == Init /\ [][NextRerun]_vars

\* SpecUpdate: one import process always started with --update
NextUpdate ==
  \/ \E f \in Files : StartImportTabulated(1, f, TRUE)
  \/ SelectDocument(1)
  \/ InsertDocument(1)
  \/ SelectChunk(1)
  \/ InsertChunk(1)

SpecUpdate == Init /\ [][NextUpdate]_vars

\* SpecConc: two import processes whose store calls interleave
NextConc ==
  \E p \in Procs :
    \/ \E f \in ConcFiles : StartImport(p, f, FALSE)
    \/ SelectDocument(p)
    \/ InsertDocument(p)
    \/ SelectChunk(p)
    \/ InsertChunk(p)

SpecConc == Init /\ [][NextConc]_vars

\* SpecParse: one import, into the empty store, of a file of any lines
NextParse ==
  \/ \E f \in ParseFiles : run[1].pc = "idle" /\ StartImport(1, f, FALSE)
  \/ SelectDocument(1)
  \/ InsertDocument(1)
  \/ SelectChunk(1)
  \/ InsertChunk(1)

SpecParse == Init /\ [][NextParse]_vars

\* SpecSearch: one import, deletion of Documents during and after it, and
\* then searches of the store
NextSearch ==
  \/ \E f \in SearchFiles : run[1].pc = "idle" /\ StartImport(1, f, FALSE)
  \/ SelectDocument(1)
  \/ InsertDocument(1)
  \/ SelectChunk(1)
  \/ InsertChunk(1)
  \/ \E q \in Queries, l \in LimitArgs, t \in ThresholdArgs :
       run[1].pc \in {"done", "failed"} /\ Search(q, l, t)
  \/ \E d \in docs : search.status = "none" /\ DeleteDocument(d)

SpecSearch == Init /\ [][NextSearch]_vars

\* SpecChat: one import, then requests to the chat endpoint
NextChat ==
  \/ \E f \in ChatFiles : run[1].pc = "idle" /\ StartImport(1, f, FALSE)
  \/ SelectDocument(1)
  \/ InsertDocument(1)
  \/ SelectChunk(1)
  \/ InsertChunk(1)
  \/ \E m \in ChatRequests, pa \in BOOLEAN, ma \in BOOLEAN, t \in ModelTexts :
       run[1].pc \in {"done", "failed"} /\ PostChat(m, pa, ma, t)

SpecChat == Init /\ [][NextChat]_vars

\* SpecEmbed: calls of generateEmbeddings on any list of texts
NextEmbed ==
  \E texts \in TextLists, pa \in BOOLEAN :
    embed.status = "none" /\ GenerateEmbeddings(texts, pa)

SpecEmbed == Init /\ [][NextEmbed]_vars

\* SpecTools: one run of an embedding tool on a disk holding its input file
InitTools ==
  /\ InitStore
  /\ InitApp
  /\ fs \in {OneFile(TsvInputPath, f) : f \in ToolFiles}
            \cup {OneFile(JsonInputPath, j) : j \in JsonInputs}

NextTools ==
  \/ \E o \in OutputArgs, pa \in BOOLEAN :
       tool.status = "none" /\ AddEmbeddingsToTsv(TsvInputPath, o, pa)
  \/ \E o \in OutputArgs, pa \in BOOLEAN :
       tool.status = "none" /\ GenerateEmbeddingsScript(JsonInputPath, o, pa)

SpecTools == InitTools /\ [][NextTools]_vars

\* SpecClean: one run of clean-encoding on a disk holding its input file
InitClean ==
  /\ InitStore
  /\ InitApp
  /\ fs \in {OneFile(TsvInputPath, f) : f \in CleanFiles}

NextClean ==
  \E o \in CleanOutputArgs :
    tool.status = "none" /\ CleanEncoding(TsvInputPath, o)

SpecClean == InitClean /\ [][NextClean]_vars

\* SpecKiosk: one kiosk, its user, its timeouts and the clock
NextKiosk ==
  \/ \E r \in Roles : SelectRole(r)
  \/ \E text \in Inputs : TypeInput(text)
  \/ HandleSubmit
  \/ \E ok \in BOOLEAN : HandleResponse(ok)
  \/ StartOver
  \/ TimeoutFires
  \/ Tick

SpecKiosk == Init /\ [][NextKiosk]_vars

\* SpecKioskFair: the browser lets time pass and runs a timeout that is due;
\* the user and the network promise nothing
SpecKioskFair ==
  Init /\ [][NextKiosk]_vars /\ WF_vars(Tick) /\ WF_vars(TimeoutFires)

\* ------------------------------------------------------- notions of the claims
\* a store's contents up to the generated ids
DocKeys(ds) == {<<d.title, d.sourceUrl>> : d \in ds}

ChunkFacts(ds, cs) ==
  UNION {{<<d.title, d.sourceUrl, c.sectionTitle, c.content, c.embedding>> :
            c \in {k \in cs : k.documentId = d.id}} : d \in ds}

SameContents(st1, st2) ==
  /\ DocKeys(st1.docs) = DocKeys(st2.docs)
  /\ Cardinality(st1.docs) = Cardinality(st2.docs)
  /\ ChunkFacts(st1.docs, st1.chunks) = ChunkFacts(st2.docs, st2.chunks)
  /\ Cardinality(st1.chunks) = Cardinality(st2.chunks)

OneDocumentPerKey(ds) ==
  \A d1, d2 \in ds :
    (d1.title = d2.title /\ d1.sourceUrl = d2.sourceUrl) => d1 = d2

OneChunkPerContent(cs) ==
  \A c1, c2 \in cs :
    (c1.documentId = c2.documentId /\ c1.content = c2.content) => c1 = c2

\* the rows of a run, group after group
RECURSIVE Flatten(_)
Flatten(groups) ==
  IF groups = <<>> THEN <<>> ELSE Head(groups).chunks \o Flatten(Tail(groups))

RowsOf(r) == parseTSV(r.file).rows

\* ------------------------------------------------------------------ claims
\* C1: a second insert-only run on the same file, with no writer in between,
\* reports documentsCreated = 0 and chunksCreated = 0 and leaves the stored
\* Documents and Chunks exactly as the first run left them.
C1_Idempotence ==
  \A p \in Procs :
    (run[p].pc = "done" /\ run[p].attempt = "afterDone" /\ ~run[p].updateExisting)
      => /\ run[p].documentsCreated = 0
         /\ run[p].chunksCreated = 0
         /\ Store = run[p].S

C1_Witness ==
  /\ run[1].pc = "done"
  /\ run[1].attempt = "afterDone"
  /\ run[1].chunksSkipped = 3
  /\ Cardinality(docs) = 2
  /\ Cardinality(chunks) = 3

\* C2: when two runs interleave their store calls, the store still holds at
\* most one Document per (title, sourceUrl) and one Chunk per
\* (documentId, content).
C2_ConcurrentUniqueness == OneDocumentPerKey(docs) /\ OneChunkPerContent(chunks)

\* C3: after any sequence of non-overlapping runs from an empty store there
\* is at most one Document per (title, sourceUrl).
C3_OneDocumentPerKey == OneDocumentPerKey(docs)

C3_Witness ==
  /\ runsStarted = 2
  /\ run[1].pc = "done"
  /\ run[1].attempt = "fresh"
  /\ Len(run[1].groups) = 2
  /\ run[1].documentsCreated = 1
  /\ Cardinality(docs) = 3

\* rows that repeat the document and content of an earlier row of the file
RepeatedRows(rows) ==
  Cardinality({i \in 1..Len(rows) :
     \E j \in 1..(i - 1) :
       /\ rows[j].documentTitle = rows[i].documentTitle
       /\ rows[j].sourceUrl = rows[i].sourceUrl
       /\ rows[j].chunkContent = rows[i].chunkContent})

\* C4: after non-overlapping runs no two Chunks share (documentId, content);
\* a finished run leaves exactly one Chunk for each of its rows under the
\* row's document and has counted every repetition in the file as skipped.
C4_OneChunkPerContent ==
  /\ OneChunkPerContent(chunks)
  /\ \A p \in Procs :
       run[p].pc = "done" =>
         /\ run[p].chunksSkipped >= RepeatedRows(RowsOf(run[p]))
         /\ \A i \in 1..Len(RowsOf(run[p])) :
              LET row == RowsOf(run[p])[i]
              IN  \E a \in run[p].attached :
                    /\ a[1] = row.documentTitle
                    /\ a[2] = row.sourceUrl
                    /\ Cardinality({c \in chunks : c.documentId = a[3]
                                      /\ c.content = row.chunkContent}) = 1

\* a file on the empty store whose second row repeats the first row's
\* document and content with another section title
C4_Witness ==
  /\ run[1].pc = "done"
  /\ run[1].S = EmptyStore
  /\ RepeatedRows(RowsOf(run[1])) = 1
  /\ RowsOf(run[1])[1].sectionTitle # RowsOf(run[1])[2].sectionTitle
  /\ run[1].chunksSkipped = 1
  /\ Cardinality(chunks) = 1

\* C5: when a run is killed after any prefix of its store writes and the
\* same file is run again from the top, the store ends with the Documents
\* and Chunks of one uninterrupted run, none duplicated and none missing.
C5_CrashTolerance ==
  \A p \in Procs :
    (run[p].pc = "done" /\ run[p].attempt = "afterCrash")
      => SameContents(Store, importChunksFromTSV(run[p].S0, nextId, run[p].file))

\* the killed run had inserted a Document and none of its Chunks
C5_Witness ==
  /\ run[1].pc = "done"
  /\ run[1].attempt = "afterCrash"
  /\ Cardinality(run[1].S.docs) = 1
  /\ run[1].S.chunks = {}
  /\ Cardinality(docs) = 2
  /\ Cardinality(chunks) = 3

\* the Document a run has resolved for its current group
ResolvedDocs(r) == {d \in docs : d.id = r.documentId}

Resolved(r) == r.pc \in {"selectChunk", "insertChunk"}

\* C6: within one run the Document of a (title, sourceUrl) key is looked up
\* at most once and created at most once, also when the key's rows are
\* separated by rows of other keys; all rows of a key get one Document.
C6_OneLookupPerKey ==
  \A p \in Procs :
    /\ \A i, j \in 1..Len(run[p].selects) :
         run[p].selects[i] = run[p].selects[j] => i = j
    /\ run[p].documentsCreated <= Len(run[p].selects)
    /\ \A a1, a2 \in run[p].attached :
         (a1[1] = a2[1] /\ a1[2] = a2[2]) => a1[3] = a2[3]
    /\ run[p].pc = "done" =>
         \A i \in 1..Len(RowsOf(run[p])) :
           Cardinality({k \in 1..Len(run[p].selects) :
              run[p].selects[k] = <<RowsOf(run[p])[i].documentTitle,
                                    RowsOf(run[p])[i].sourceUrl>>}) <= 1

\* rows 1 and 3 have one key, row 2 another, and row 3 created a Chunk
C6_Witness ==
  /\ run[1].pc = "done"
  /\ Len(RowsOf(run[1])) = 3
  /\ GroupKey(RowsOf(run[1])[1]) = GroupKey(RowsOf(run[1])[3])
  /\ GroupKey(RowsOf(run[1])[1]) # GroupKey(RowsOf(run[1])[2])
  /\ Len(run[1].selects) = 2
  /\ run[1].chunksCreated = 3
  /\ run[1].documentsCreated = 2

C8_UpdateOverwrites ==
  [][\A p \in Procs :
       (/\ run[p].pc = "selectChunk"
        /\ run[p].updateExisting
        /\ run'[p] # run[p])
         => \A e \in {c \in chunks : c.documentId = run[p].documentId
                         /\ c.content = CurrentChunk(run[p]).chunkContent} :
              /\ \E c \in chunks' :
                   /\ c.id = e.id
                   /\ c.sectionTitle = OrNull(CurrentChunk(run[p]).sectionTitle)
                   /\ c.embedding = ToVector(CurrentChunk(run[p]).embedding)
              /\ Cardinality(chunks') = Cardinality(chunks)]_vars

HasDocument(S, t, u) ==
  \E d \in S.docs : d.title = t /\ d.sourceUrl = OrNull(u)

HasChunk(S, t, u, content) ==
  \E d \in S.docs, c \in S.chunks :
    /\ d.title = t
    /\ d.sourceUrl = OrNull(u)
    /\ c.documentId = d.id
    /\ c.content = content

\* C9: for a finished run against the prior store S, documentsCreated is the
\* number of distinct (title, sourceUrl) keys of the file with no Document
\* in S, chunksCreated the number of distinct (document, content) pairs of
\* the file with no Chunk in S, and chunksSkipped counts every other row.
C9_CountersExact ==
  \A p \in Procs :
    run[p].pc = "done" =>
      LET rows == RowsOf(run[p])
          S    == run[p].S
          newKeys == {k \in {<<rows[i].documentTitle, rows[i].sourceUrl>> :
                                i \in 1..Len(rows)} : ~HasDocument(S, k[1], k[2])}
          newPairs == {k \in {<<rows[i].documentTitle, rows[i].sourceUrl,
                                 rows[i].chunkContent>> : i \in 1..Len(rows)} :
                         ~HasChunk(S, k[1], k[2], k[3])}
      IN  /\ run[p].documentsCreated = Cardinality(newKeys)
          /\ run[p].chunksCreated = Cardinality(newPairs)
          /\ run[p].chunksSkipped = Len(rows) - Cardinality(newPairs)
          /\ run[p].chunksCreated + run[p].chunksSkipped = run[p].totalRows

\* C10: without --update, the step that finds the row's (documentId, content)
\* in the store leaves every Document and Chunk as it was, creates nothing
\* and adds one to the skip counter only.
C10_SkipChangesNothing ==
  [][\A p \in Procs :
       (/\ run[p].pc = "selectChunk"
        /\ ~run[p].updateExisting
        /\ run'[p] # run[p]
        /\ \E c \in chunks : /\ c.documentId = run[p].documentId
                              /\ c.content = CurrentChunk(run[p]).chunkContent)
         => /\ chunks' = chunks
            /\ docs' = docs
            /\ nextId' = nextId
            /\ run'[p].chunksSkipped = run[p].chunksSkipped + 1
            /\ run'[p].chunksCreated = run[p].chunksCreated
            /\ run'[p].documentsCreated = run[p].documentsCreated]_vars

\* a one-row file was skipped although its section title differs from the
\* stored Chunk's
C10_Witness ==
  /\ run[1].pc = "done"
  /\ run[1].totalRows = 1
  /\ run[1].chunksSkipped = 1
  /\ \E c \in chunks :
       /\ c.documentId = run[1].documentId
       /\ c.content = RowsOf(run[1])[1].chunkContent
       /\ c.sectionTitle # OrNull(RowsOf(run[1])[1].sectionTitle)
       /\ c.embedding # ToVector(RowsOf(run[1])[1].embedding)

\* ------------------------------------------------- claims about the parser
\* the embedding text is a JSON array of exactly EmbeddingDim numbers
NumericArrayOfDim(e) ==
  e.json = "array" /\ e.elems = "number" /\ e.len = EmbeddingDim

\* a line parseTSV takes as data that lacks a required field or whose
\* embedding text is no numeric array of EmbeddingDim elements
BadRow(line) ==
  /\ IsDataLine(line)
  /\ \/ Falsy(line, 1)
     \/ Falsy(line, 4)
     \/ FalsyEmbedding(line)
     \/ ~NumericArrayOfDim(line[5])

HasBadRow(file) == \E i \in 1..Len(file) : BadRow(file[i])

\* C11: a run on a file that holds a malformed row or an invalid embedding,
\* wherever the row stands, fails and leaves the store as it was when the
\* run started: no Document and no Chunk of the file is committed.
C11_BadFileWritesNothing ==
  \A p \in Procs :
    (run[p].pc # "idle" /\ HasBadRow(run[p].file))
      => /\ run[p].pc \in Running \cup {"failed"}
         /\ docs = run[p].S.docs
         /\ chunks = run[p].S.chunks

\* C12: every stored Chunk's embedding is a vector of EmbeddingDim numbers,
\* and a run that returns without an error met no data line whose embedding
\* text is anything but a JSON array of EmbeddingDim numbers.
C12_DimensionInvariant ==
  /\ \A c \in chunks :
       c.embedding.dims = EmbeddingDim /\ c.embedding.elems = "number"
  /\ \A p \in Procs :
       run[p].pc = "done" =>
         \A i \in 1..Len(run[p].file) :
           IsDataLine(run[p].file[i]) =>
             /\ HasField(run[p].file[i], 5)
             /\ NumericArrayOfDim(run[p].file[i][5])

\* C13: every row the parser returns has a non-empty title and non-empty
\* content, and so has every stored Document and Chunk.
C13_NoEmptyTitleOrContent ==
  /\ \A p \in Procs :
       \A i \in 1..Len(RowsOf(run[p])) :
         /\ RowsOf(run[p])[i].documentTitle # <<>>
         /\ RowsOf(run[p])[i].chunkContent # <<>>
  /\ \A d \in docs : d.title # <<>>
  /\ \A c \in chunks : c.content # <<>>

\* the lines left after discarding the blank lines, the lines beginning
\* with '#', and the first line that remains (the header)
NonCommentLines(file) ==
  SelectSeq(file, LAMBDA line : ~IsBlankLine(line) /\ ~LineStartsWith(line, "#"))

LinesAfterHeader(file) ==
  IF NonCommentLines(file) = <<>> THEN <<>> ELSE Tail(NonCommentLines(file))

\* C14: the lines the parser turns into rows are, in file order, exactly
\* the lines that are not blank, do not begin with '#' and are not the first
\* non-comment line; when the parse fails one of those lines is invalid.
C14_DiscardsExactly ==
  \A p \in Procs :
    run[p].pc # "idle" =>
      LET kept == LinesAfterHeader(run[p].file)
      IN  IF parseTSV(run[p].file).ok
          THEN DataLinesOf(run[p].file) = kept
          ELSE \E i \in 1..Len(kept) : ~RowIsValid(kept[i])

\* C20: a run whose store write failed for one row has still looked up the
\* Document of every group of the file, the groups after the failed one
\* included.
C20_FailedWriteAbortsOneGroup ==
  \A p \in Procs :
    (run[p].pc = "failed" /\ run[p].error = "store")
      => Len(run[p].selects) = Len(run[p].groups)

\* ------------------------------------------------- claims about the search
\* the cosine similarity of a stored chunk and the query of the last search
SimilarityOf(c) ==
  [dot |-> Dot(c.embedding.comps, search.query.comps),
   nn  |-> Dot(c.embedding.comps, c.embedding.comps)
             * Dot(search.query.comps, search.query.comps)]

\* the chunks, of an existing Document, that the last search met at or
\* above its threshold
Reaching ==
  {c \in search.store.chunks :
     /\ \E d \in search.store.docs : d.id = c.documentId
     /\ RealGe(SimilarityOf(c), search.threshold)}

ResultIds == {search.results[i].id : i \in 1..Len(search.results)}

\* C15: every result of a search is a stored chunk whose similarity to the
\* query is at least the threshold, and a search that no stored chunk
\* reaches (the empty store included) returns the empty sequence, not an
\* error.
C15_ThresholdFilter ==
  /\ search.status = "ok" =>
       \A i \in 1..Len(search.results) :
         \E c \in search.store.chunks :
           /\ c.id = search.results[i].id
           /\ search.results[i].similarity = SimilarityOf(c)
           /\ RealGe(SimilarityOf(c), search.threshold)
  /\ (search.status # "none" /\ search.query.len = EmbeddingDim /\ Reaching = {})
       => search.status = "ok" /\ search.results = <<>>

\* a search returned something and left out a stored chunk below the threshold
C15_Witness ==
  /\ search.status = "ok"
  /\ search.results # <<>>
  /\ \E c \in search.store.chunks : ~RealGe(SimilarityOf(c), search.threshold)

\* C16: of two consecutive results the earlier one's similarity is at least
\* the later one's.
C16_DescendingSimilarity ==
  search.status = "ok" =>
    \A i \in 1..(Len(search.results) - 1) :
      RealGe(search.results[i].similarity, search.results[i + 1].similarity)

\* three results, the first strictly more similar than the last
C16_Witness ==
  /\ search.status = "ok"
  /\ Len(search.results) >= 3
  /\ ~RealGe(search.results[Len(search.results)].similarity,
             search.results[1].similarity)

C18_QueryDimensionChecked ==
  (search.status # "none" /\ search.query.len # EmbeddingDim)
    => /\ search.status = "error"
       /\ search.storeQueries = 0
       /\ search.results = <<>>

\* a query one component short failed on a store that holds chunks
C18_Witness ==
  /\ search.status = "error"
  /\ search.query.len = EmbeddingDim - 1
  /\ search.store.chunks # {}

\* C19: every stored Chunk references exactly one stored Document; a step
\* that deletes Documents removes the Chunks of those Documents and no
\* others; and every result of a search is a Chunk of a stored Document.
C19_Ownership ==
  /\ [](\A c \in chunks : Cardinality({d \in docs : d.id = c.documentId}) = 1)
  /\ [][(docs' # docs /\ docs' \subseteq docs)
          => chunks' = {c \in chunks : \E d \in docs' : d.id = c.documentId}]_vars
  /\ [](\A i \in 1..Len(search.results) :
          \E d \in search.store.docs : d.id = search.results[i].documentId)

\* one of two Documents created by the run was deleted with its Chunks,
\* and the Chunks of the other are still stored
C19_Witness ==
  /\ run[1].pc = "done"
  /\ run[1].documentsCreated = 2
  /\ Cardinality(docs) = 1
  /\ chunks # {}
  /\ Cardinality(chunks) < run[1].chunksCreated

\* --------------------------------------------------- claims about grouping
\* C27: the rows of one group have one (title, sourceUrl) pair, and every
\* row is given a Document whose title and sourceUrl are the row's own (an
\* empty source being stored as null), also when titles or URLs hold '|'.
C27_GroupsByTitleAndSource ==
  \A p \in Procs :
    /\ \A g \in 1..Len(run[p].groups) :
         \A i, j \in 1..Len(run[p].groups[g].chunks) :
           /\ run[p].groups[g].chunks[i].documentTitle
                = run[p].groups[g].chunks[j].documentTitle
           /\ run[p].groups[g].chunks[i].sourceUrl
                = run[p].groups[g].chunks[j].sourceUrl
    /\ \A a \in run[p].attached :
         \E d \in docs : d.id = a[3] /\ d.title = a[1] /\ d.sourceUrl = OrNull(a[2])

\* ----------------------------------------------- claims about the chat route
\* C21: a request whose retrieval returned no chunk is answered with
\* exactly the fixed deflection message.
C21_DeflectionWhenNothingFound ==
  (chat.httpStatus = 200 /\ chat.retrieved = 0)
    => chat.message = NoResultsMessage

\* -------------------------------------------- claims about generateEmbeddings
\* C22: a call with a text that is empty after trimming fails without a
\* call of the provider; a call with no text returns no vector, without a
\* call of the provider; every other call makes exactly one provider call.
C22_ValidatedBeforeOneCall ==
  embed.status # "none" =>
    IF \E i \in 1..Len(embed.texts) : Trim(embed.texts[i]) = <<>>
    THEN embed.status = "error" /\ embed.providerCalls = 0
    ELSE IF embed.texts = <<>>
    THEN embed.status = "ok" /\ embed.embeddings = <<>> /\ embed.providerCalls = 0
    ELSE /\ embed.providerCalls = 1
         /\ embed.status = "ok" => Len(embed.embeddings) = Len(embed.texts)

\* a list with a text of white space only, after a non-empty one, was refused
C22_Witness ==
  /\ embed.status = "error"
  /\ embed.providerCalls = 0
  /\ Len(embed.texts) >= 2
  /\ embed.texts[1] = <<"x">>
  /\ embed.texts[2] = <<" ">>

\* C23: the embed-and-export tools pair vectors with rows correctly.  A run
\* that ends well asked the provider for the contents of exactly the rows
\* that had no embedding of their own, in the order of the rows; every such
\* row is written with the vector returned for its own content, every other
\* row with the embedding it came with, and the output file holds the rows.
KeptToolLines(content) ==
  LET lines == SelectSeq(content, LAMBDA l : ~IsBlankLine(l) /\ ~LineStartsWith(l, "#"))
  IN  SelectSeq(Tail(lines), LAMBDA l : Len(l) >= 4 /\ l[1] # <<>> /\ l[4] # <<>>)

OwnEmbedding(line) == Len(line) >= 5 /\ line[5].json = "array"

C23_AddEmbeddingsPairs ==
  (tool.name = "add-embeddings-to-tsv" /\ tool.status = "done") =>
    LET kept == KeptToolLines(tool.inputBefore)
        lacking == SelectSeq(kept, LAMBDA l : ~OwnEmbedding(l))
    IN  /\ Len(tool.rows) = Len(kept)
        /\ tool.requested = [i \in 1..Len(lacking) |-> lacking[i][4]]
        /\ \A i \in 1..Len(kept) :
             /\ tool.rows[i].chunkContent = Trim(kept[i][4])
             /\ tool.rows[i].embedding =
                  IF OwnEmbedding(kept[i]) THEN kept[i][5]
                  ELSE ProviderVector(kept[i][4])
        /\ fs[tool.outputPath] =
             <<Header>> \o [i \in 1..Len(kept) |-> OutputLine(tool.rows[i])]

C23_GenerateEmbeddingsPairs ==
  (tool.name = "generate-embeddings" /\ tool.status = "done") =>
    /\ tool.requested = [i \in 1..Len(tool.rows) |-> tool.rows[i].chunkContent]
    /\ Len(tool.rows) = Len(AllRows(tool.inputBefore))
    /\ \A i \in 1..Len(tool.rows) :
         /\ tool.rows[i].chunkContent = AllRows(tool.inputBefore)[i].chunkContent
         /\ tool.rows[i].embedding = ProviderVector(tool.rows[i].chunkContent)
    /\ fs[tool.outputPath] =
         <<Header>> \o [i \in 1..Len(tool.rows) |-> OutputLine(tool.rows[i])]

C23_VectorsPairedWithRows == C23_AddEmbeddingsPairs /\ C23_GenerateEmbeddingsPairs

\* a run that wrote a row with its own embedding between two rows that were
\* given vectors, one of them after a cut-off array
C23_Witness ==
  /\ tool.name = "add-embeddings-to-tsv"
  /\ tool.status = "done"
  /\ Len(tool.rows) = 3
  /\ Len(tool.requested) = 2
  /\ tool.rows[1].embedding = ProviderVector(<<"c3">>)
  /\ tool.rows[2].embedding = E1
  /\ tool.rows[3].embedding = ProviderVector(<<"c1">>)

\* C24: the repair pass restores the field count.  When the input's lines
\* after the header are rows of the header's field count, any of them broken
\* by line breaks inside the content field, every row written by
\* clean-encoding has exactly the header's field count.
RECURSIVE BrokenInsideContent(_, _, _)
BrokenInsideContent(lines, expectedFields, insideRow) ==
  IF lines = <<>> THEN ~insideRow
  ELSE LET n == Len(Head(lines))
           blank == TrimLine(Head(lines)) = EmptyLine
       IN  IF blank THEN BrokenInsideContent(Tail(lines), expectedFields, insideRow)
           ELSE IF ~insideRow
           THEN \/ n = expectedFields
                   /\ BrokenInsideContent(Tail(lines), expectedFields, FALSE)
                \/ n = expectedFields - 1
                   /\ BrokenInsideContent(Tail(lines), expectedFields, TRUE)
           ELSE \/ n = 1 /\ BrokenInsideContent(Tail(lines), expectedFields, TRUE)
                \/ n = 2 /\ BrokenInsideContent(Tail(lines), expectedFields, FALSE)

C24_RepairRestoresFieldCount ==
  (/\ tool.name = "clean-encoding"
   /\ tool.status = "done"
   /\ BrokenInsideContent(Tail(tool.inputBefore), Len(CleanHeader), FALSE)) =>
    \A r \in 1..Len(tool.rows) : Len(tool.rows[r]) = Len(CleanHeader)

\* C25: clean-encoding never destroys its input.  After a run the input
\* file holds what it held before the run.
C25_InputPreserved ==
  (tool.name = "clean-encoding" /\ tool.status = "done") =>
    fs[tool.inputPath] = tool.inputBefore

\* C26: inactivity reset.  Whenever the session is not in its initial state
\* (a role is selected or messages exist) and the user has not interacted
\* for the inactivity timeout, the session is eventually back in its initial
\* state: no messages, empty input, no selected role.
NonInitialSession == kiosk.messages # <<>> \/ kiosk.selectedRole # "none"

InitialSession ==
  kiosk.messages = <<>> /\ kiosk.input = <<>> /\ kiosk.selectedRole = "none"

C26_InactivityReset ==
  (NonInitialSession /\ kiosk.now - kiosk.lastInteraction >= InactivityTimeout)
    ~> InitialSession

\* C28: after resetSession the message list holds no message of an earlier
\* session.  Every message in the list was sent, or is the answer to a
\* request sent, after the last reset.
C28_NoMessageOfEarlierSession ==
  \A i \in 1..Len(kiosk.messages) : kiosk.messages[i].session = kiosk.session

\* C29: every interaction restarts the countdown.  A reset by timeout never
\* comes less than the inactivity timeout after the user's last interaction.
C29_ResetOnlyAfterFullTimeout ==
  kiosk.timeoutGap # -1 => kiosk.timeoutGap >= InactivityTimeout

\* C30: at most one inactivity timeout is pending.  The pending timeout is
\* the one the timer ref holds, a reset leaves none pending, and no timeout
\* that was cancelled has fired.
C30_AtMostOnePendingTimeout ==
  /\ Cardinality(kiosk.pending) <= 1
  /\ \A t \in kiosk.pending : t.id = kiosk.timerRef
  /\ kiosk.lastEvent \in {"startOver", "timeout"} => kiosk.pending = {}
  /\ kiosk.fired \cap kiosk.cancelled = {}

\* a second question was submitted while the timeout of the first answer was
\* pending, and later a timeout fired
C30_Witness ==
  /\ Cardinality(kiosk.cancelled) >= 4
  /\ kiosk.fired # {}
  /\ kiosk.lastEvent = "timeout"

====
